---- MODULE Spec2Model ----
(***************************************************************************)
(* A model of dnsproxy.py: the caching upstream lookup (RealDnsLookup),    *)
(* the private-passthrough policy (DnsPrivatePassthroughFilter), and the   *)
(* per-datagram handler (UdpDnsHandler) run by a threading UDP server      *)
(* (DnsProxyServer), one thread per datagram.                              *)
(*                                                                         *)
(* Byte strings are sequences of integers 0..255.  A Python value that is  *)
(* either None or an address string is a record [ver, parts]: ver = 0 is   *)
(* None, ver = 4 a dotted IPv4 string with its four octets, ver = 6 an     *)
(* IPv6 string with its eight groups.  A dictionary slot without an entry  *)
(* is NoEntry (ver = -1).                                                  *)
(*                                                                         *)
(* Spec is the server under load: up to NumTasks handler threads run       *)
(* concurrently over the shared cache.  SeqSpec serves one request at a    *)
(* time, over the full set of datagrams and the direct calls of the lookup.*)
(* CodecSpec handles one datagram drawn from every question section of up  *)
(* to MaxWire bytes.  CtorSpec starts before RealDnsLookup.__init__ and    *)
(* runs it statement by statement.  FairSpec is one thread per datagram    *)
(* under weak fairness of each thread's own steps.                         *)
(***************************************************************************)
EXTENDS Integers, Sequences, FiniteSets, TLC

\* Bounds of the model: concurrent handler threads, and datagrams/calls served.
NumTasks == 2
MaxRequests == 3
\* Longest question section of the generated datagrams
MaxWire == 5
\* Longest nameserver list the resolver is constructed with
MaxServers == 2

Tasks == 1..NumTasks

---------------------------------------------------------------------------
\* Values

None == [ver |-> 0, parts |-> <<>>]
NoEntry == [ver |-> -1, parts |-> <<>>]
Ip4(a, b, c, d) == [ver |-> 4, parts |-> <<a, b, c, d>>]
Ip6(g) == [ver |-> 6, parts |-> g]

\* Python truthiness of None / a non-empty string
Truthy(v) == v.ver > 0

\* dns.rdatatype.A and dns.rdatatype.AAAA
RdtypeA == 1
RdtypeAAAA == 28

STANDARD_QUERY_OPERATION_CODE == 0

\* Configuration of the running proxy
web_proxy_ip == Ip4(127, 0, 0, 1)
server_address == <<Ip4(0, 0, 0, 0), 53>>
SkipHostsArg == { <<115>> }                    \* skip_passthrough_hosts = ("s",)
skip_passthrough_hosts == { host \o <<46>> : host \in SkipHostsArg }

\* ipaddr.IPAddress(ip).is_private
InRange(x, lo, hi) == lo <= x /\ x <= hi
IsPrivate(v) ==
  IF v.ver = 4
    THEN \/ v.parts[1] = 10
         \/ v.parts[1] = 172 /\ InRange(v.parts[2], 16, 31)
         \/ v.parts[1] = 192 /\ v.parts[2] = 168
         \/ v.parts[1] = 127
         \/ v.parts[1] = 169 /\ v.parts[2] = 254
    ELSE v.ver = 6 /\ InRange(v.parts[1], 64512, 65023)

\* socket.inet_aton(ip): the four packed bytes of a dotted IPv4 string;
\* anything else raises (<<>> here stands for the raise).
InetAtonOk(v) == v.ver = 4
inet_aton(v) == IF InetAtonOk(v) THEN v.parts ELSE <<>>

---------------------------------------------------------------------------
\* The upstream resolver: what resolver.query(hostname, rdtype) can do.

UpstreamIps(r) ==
  IF r = RdtypeA THEN { Ip4(192, 168, 1, 5), Ip4(8, 8, 8, 8) }
                 ELSE { Ip6(<<8193, 3512, 0, 0, 0, 0, 0, 1>>),
                        Ip6(<<64768, 0, 0, 0, 0, 0, 0, 1>>) }

Caught == { "NoAnswer", "NXDOMAIN", "Timeout" }
Uncaught == { "NoNameservers" }

UpstreamOutcomes(r) ==
  { [kind |-> "answer", ip |-> a] : a \in UpstreamIps(r) }
    \cup { [kind |-> k, ip |-> None] : k \in Caught \cup Uncaught \cup {"Empty"} }

---------------------------------------------------------------------------
\* Wire format

\* Python slice s[lo:hi] with 0-based lo, hi (clipped to the string)
Min(a, b) == IF a < b THEN a ELSE b
Slice(s, lo, hi) ==
  IF lo >= Min(hi, Len(s)) THEN <<>>
  ELSE [i \in 1..(Min(hi, Len(s)) - lo) |-> s[lo + i]]

\* (ord(self.data[2]) >> 3) & 15
OperationCode(d) == (d[3] \div 8) % 16

\* UdpDnsHandler._domain: [ok, domain]; ok = FALSE is the IndexError of
\* ord(wire_domain[index]) past the end of the string.
\* DomainLoop with a bounds-checked loop: running off the end ends the domain
RECURSIVE DomainLoopLenient(_, _, _)
DomainLoopLenient(w, index, acc) ==
  IF index >= Len(w) THEN [ok |-> TRUE, domain |-> acc]
  ELSE LET length == w[index + 1] IN
       IF length = 0 THEN [ok |-> TRUE, domain |-> acc]
       ELSE DomainLoopLenient(w, index + length + 1,
                              acc \o Slice(w, index + 1, index + length + 1) \o <<46>>)

RECURSIVE DomainLoop(_, _, _)
DomainLoop(w, index, acc) ==
  IF index >= Len(w) THEN [ok |-> FALSE, domain |-> acc]
  ELSE LET length == w[index + 1] IN
       IF length = 0 THEN [ok |-> TRUE, domain |-> acc]
       ELSE DomainLoop(w, index + length + 1,
                       acc \o Slice(w, index + 1, index + length + 1) \o <<46>>)

_domain(wire_domain) == DomainLoop(wire_domain, 0, <<>>)

\* transaction_id read one byte too far
transaction_id_second_byte(d) == <<d[2]>>

\* qa_counts read from the request's answer count
qa_counts_answer(d) == Slice(d, 6, 8)

\* self.transaction_id, self.flags, self.qa_counts
transaction_id(d) == <<d[1]>>
flags(d) == <<d[2]>>
qa_counts(d) == Slice(d, 4, 6)

\* get_dns_response without the "if self.domain" test
get_dns_response_always(d, dom, wire, addr) ==
  transaction_id(d) \o flags(d) \o <<129, 128>>
    \o qa_counts(d) \o qa_counts(d) \o <<0, 0, 0, 0>>
    \o wire
    \o <<192, 12>> \o <<0, 1>> \o <<0, 1>> \o <<0, 0, 0, 60>> \o <<0, 4>>
    \o inet_aton(addr)

\* UdpDnsHandler.get_dns_response, for an ip that inet_aton accepts
get_dns_response(d, dom, wire, addr) ==
  IF dom # <<>>
    THEN transaction_id(d) \o flags(d) \o <<129, 128>>
           \o qa_counts(d) \o qa_counts(d) \o <<0, 0, 0, 0>>
           \o wire
           \o <<192, 12>> \o <<0, 1>> \o <<0, 1>> \o <<0, 0, 0, 60>> \o <<0, 4>>
           \o inet_aton(addr)
    ELSE <<>>

\* Datagrams the clients send
Header(b2, qd) == <<18, 52, b2, 0, 0, qd, 0, 0, 0, 0, 0, 0>>
QTail(t) == <<0, t, 0, 1>>
Question(label, qtype) == <<1, label, 0>> \o QTail(qtype)
Packets ==
  { <<>>,                                       \* empty datagram
    <<18, 52, 1>>,                              \* 3 bytes, opcode 0
    <<18, 52, 41>>,                             \* 3 bytes, opcode 5
    Header(1, 1) \o Question(97, 1),            \* A? a.
    Header(1, 1) \o Question(97, 28),           \* AAAA? a.
    Header(1, 1) \o Question(115, 1),           \* A? s.   (s is in the skip-list)
    Header(17, 1) \o Question(97, 1),           \* opcode 2 (status)
    Header(1, 1) \o <<0>> \o QTail(1),          \* A? .    (the root: empty domain)
    Header(1, 1) \o <<2, 97>> }                 \* a label that runs off the end

\* The datagrams of the concurrent specification: a query that is looked up,
\* a query for a skip-list host, and a malformed one
ConcurrentPackets ==
  { Header(1, 1) \o Question(97, 1),
    Header(1, 1) \o Question(115, 1),
    <<18, 52, 1>> }

\* Generated datagrams: two headers (opcode 0), each followed by every byte
\* string of at most MaxWire bytes over WireBytes as the question section
WireBytes == { 0, 1, 2, 97 }
Wires == UNION { [1..n -> WireBytes] : n \in 0..MaxWire }
CodecHeaders ==
  { Header(1, 1),
    <<171, 205, 1, 32, 1, 2, 0, 0, 0, 0, 0, 0>> }
CodecPackets == { h \o w : h \in CodecHeaders, w \in Wires } \cup Packets

\* Hostnames and record types of direct calls of RealDnsLookup
CallHosts == { <<97, 46>> }
Rdtypes == { RdtypeA, RdtypeAAAA }

\* Every key the cache can be asked for
Hostnames ==
  CallHosts \cup {<<>>}
    \cup { _domain(Slice(p, 12, Len(p))).domain :
             p \in { q \in Packets : _domain(Slice(q, 12, Len(q))).ok } }

\* Every key the handlers of the generated datagrams can ask the cache for
CodecHostnames ==
  {<<>>}
    \cup { _domain(Slice(p, 12, Len(p))).domain :
             p \in { q \in CodecPackets : _domain(Slice(q, 12, Len(q))).ok } }

---------------------------------------------------------------------------
\* State

VARIABLES
  dns_cache,        \* RealDnsLookup.dns_cache: hostname -> NoEntry, None or address
  dns_cache_lock,   \* RealDnsLookup.dns_cache_lock: 0 when free, else the holder
  started,          \* datagrams received and direct calls made so far
  pc,               \* each thread's position (the source line it is about to run)
  kind,             \* "handle": a datagram's handler; "call": a direct lookup call
  data,             \* UdpDnsHandler.data
  domain,           \* UdpDnsHandler.domain
  wire_domain,      \* UdpDnsHandler.wire_domain
  hostname,         \* RealDnsLookup.__call__'s hostname
  rdtype,           \* RealDnsLookup.__call__'s rdtype
  lk_ip,            \* RealDnsLookup.__call__'s local ip
  real_ip,          \* what the lookup returned (the filter's real_ip)
  ip,               \* what the filter returned (the handler's ip before the fallback)
  wfile,            \* the bytes the handler wrote to self.wfile
  error,            \* the exception that ended the thread, "" when none
  answers,          \* RealDnsLookup.__call__'s answers: str(answers[0]), None when empty
  name_servers,     \* RealDnsLookup.__init__'s argument
  resolver,         \* RealDnsLookup.resolver
  ctor,             \* the constructor's position, "constructed" or "raised" at its end
  \* history, read by the properties only
  lk,               \* the thread's lookup: "none", "called", "returned", "raised"
  outcome,          \* what the thread's upstream query did, "" when it made none
  stored,           \* the thread wrote the cache
  hit_rdtype,       \* the rdtype of the lookup whose entry the thread's get returned
  entry_first,      \* first_resolved[hostname] when the thread's lookup began
  entry_quiet,      \* the cached address when the lookup began with no miss pending
  cache_rdtype,     \* per hostname, the rdtype of the lookup that wrote the entry
  first_resolved    \* per hostname, the address of the first completed resolution

shared == <<dns_cache, dns_cache_lock, cache_rdtype, first_resolved>>
handler == <<data, domain, wire_domain, ip, wfile, error>>
lookup == <<hostname, rdtype, lk_ip, real_ip, lk, outcome, answers, stored,
            hit_rdtype, entry_first, entry_quiet>>
construction == <<name_servers, resolver, ctor>>
vars == <<shared, construction, started, pc, kind, handler, lookup>>

\* The resolver object before and after dns.resolver.get_default_resolver(),
\* and the nameservers the running proxy is constructed with
NoResolver == [got |-> FALSE, nameservers |-> <<>>]
DefaultResolver == [got |-> TRUE, nameservers |-> <<"resolv.conf">>]
ProxyNameServers == <<"8.8.8.8">>

\* No request is being handled
InitTasks ==
  /\ started = 0
  /\ pc = [t \in Tasks |-> "idle"]
  /\ kind = [t \in Tasks |-> "handle"]
  /\ data = [t \in Tasks |-> <<>>]
  /\ domain = [t \in Tasks |-> <<>>]
  /\ wire_domain = [t \in Tasks |-> <<>>]
  /\ hostname = [t \in Tasks |-> <<>>]
  /\ rdtype = [t \in Tasks |-> RdtypeA]
  /\ lk_ip = [t \in Tasks |-> None]
  /\ real_ip = [t \in Tasks |-> None]
  /\ ip = [t \in Tasks |-> None]
  /\ wfile = [t \in Tasks |-> <<>>]
  /\ error = [t \in Tasks |-> ""]
  /\ answers = [t \in Tasks |-> None]
  /\ lk = [t \in Tasks |-> "none"]
  /\ outcome = [t \in Tasks |-> ""]
  /\ stored = [t \in Tasks |-> FALSE]
  /\ hit_rdtype = [t \in Tasks |-> 0]
  /\ entry_first = [t \in Tasks |-> None]
  /\ entry_quiet = [t \in Tasks |-> None]

\* The proxy constructed and running, with an empty cache
Init ==
  /\ name_servers = ProxyNameServers
  /\ resolver = [got |-> TRUE, nameservers |-> ProxyNameServers]
  /\ ctor = "constructed"
  /\ dns_cache = [h \in Hostnames |-> NoEntry]
  /\ dns_cache_lock = 0
  /\ cache_rdtype = [h \in Hostnames |-> 0]
  /\ first_resolved = [h \in Hostnames |-> None]
  /\ InitTasks

\* A lookup of h that missed the cache and has not returned yet
PendingMiss(u, h) ==
  /\ hostname[u] = h
  /\ \/ pc[u] \in {"lookup_58", "lookup_67", "lookup_68", "lookup_69"}
     \/ pc[u] = "lookup_54" /\ ~Truthy(lk_ip[u])

\* h is cached with an address and no lookup of h that missed is in flight
Quiet(h) == Truthy(dns_cache[h]) /\ \A u \in Tasks : ~PendingMiss(u, h)

---------------------------------------------------------------------------
\* DnsProxyServer: one thread per datagram (ThreadingUDPServer)

\* self.data = self.rfile.read()
Receive(t, p) ==
  /\ pc[t] = "idle"
  /\ UNCHANGED construction
  /\ started < MaxRequests
  /\ started' = started + 1
  /\ kind' = [kind EXCEPT ![t] = "handle"]
  /\ data' = [data EXCEPT ![t] = p]
  /\ pc' = [pc EXCEPT ![t] = "handle_130"]
  /\ UNCHANGED <<shared, domain, wire_domain, ip, wfile, error, lookup>>

\* UdpDnsHandler.handle up to the call of the passthrough filter
Decode(t) ==
  /\ pc[t] = "handle_130"
  /\ UNCHANGED construction
  /\ IF Len(data[t]) < 3
       THEN /\ error' = [error EXCEPT ![t] = "IndexError"]
            /\ pc' = [pc EXCEPT ![t] = "done"]
            /\ UNCHANGED <<domain, wire_domain>>
       ELSE IF OperationCode(data[t]) = STANDARD_QUERY_OPERATION_CODE
         THEN LET w == Slice(data[t], 12, Len(data[t]))
                  r == _domain(w)
              IN /\ wire_domain' = [wire_domain EXCEPT ![t] = w]
                 /\ IF r.ok
                      THEN /\ domain' = [domain EXCEPT ![t] = r.domain]
                           /\ pc' = [pc EXCEPT ![t] = "handle_141"]
                           /\ UNCHANGED error
                      ELSE /\ error' = [error EXCEPT ![t] = "IndexError"]
                           /\ pc' = [pc EXCEPT ![t] = "done"]
                           /\ UNCHANGED domain
         ELSE /\ pc' = [pc EXCEPT ![t] = "handle_141"]
              /\ UNCHANGED <<domain, wire_domain, error>>
  /\ UNCHANGED <<shared, started, kind, data, ip, wfile, lookup>>

---------------------------------------------------------------------------
\* RealDnsLookup.__call__

\* entering __call__(h, r)
EnterLookup(t, h, r) ==
  /\ hostname' = [hostname EXCEPT ![t] = h]
  /\ rdtype' = [rdtype EXCEPT ![t] = r]
  /\ lk' = [lk EXCEPT ![t] = "called"]
  /\ entry_first' = [entry_first EXCEPT ![t] = first_resolved[h]]
  /\ entry_quiet' = [entry_quiet EXCEPT ![t] = IF Quiet(h) THEN dns_cache[h] ELSE None]
  /\ pc' = [pc EXCEPT ![t] = "lookup_52"]

\* return v
LookupReturn(t, v) ==
  /\ real_ip' = [real_ip EXCEPT ![t] = v]
  /\ lk' = [lk EXCEPT ![t] = "returned"]
  /\ pc' = [pc EXCEPT ![t] = IF kind[t] = "handle" THEN "filter_104" ELSE "done"]

\* a caller other than the filter: real_dns_lookup(h, r)
Call(t, h, r) ==
  /\ pc[t] = "idle"
  /\ UNCHANGED construction
  /\ started < MaxRequests
  /\ started' = started + 1
  /\ kind' = [kind EXCEPT ![t] = "call"]
  /\ EnterLookup(t, h, r)
  /\ UNCHANGED <<shared, handler, lk_ip, real_ip, outcome, answers, stored, hit_rdtype>>

\* self.dns_cache_lock.acquire()
LookupAcquire1(t) ==
  /\ pc[t] = "lookup_52"
  /\ UNCHANGED construction
  /\ dns_cache_lock = 0
  /\ dns_cache_lock' = t
  /\ pc' = [pc EXCEPT ![t] = "lookup_53"]
  /\ UNCHANGED <<dns_cache, cache_rdtype, first_resolved, started, kind, handler, lookup>>

\* DictGet that never finds the key
DictGetMiss(d, key) == None

\* dict.get(key): None when the key has no entry
DictGet(d, key) == IF d[key] = NoEntry THEN None ELSE d[key]

\* ip = self.dns_cache.get(hostname)
LookupGet(t) ==
  /\ pc[t] = "lookup_53"
  /\ UNCHANGED construction
  /\ lk_ip' = [lk_ip EXCEPT ![t] = DictGet(dns_cache, hostname[t])]
  /\ hit_rdtype' = [hit_rdtype EXCEPT ![t] = cache_rdtype[hostname[t]]]
  /\ pc' = [pc EXCEPT ![t] = "lookup_54"]
  /\ UNCHANGED <<shared, started, kind, handler, hostname, rdtype, real_ip, lk,
                 outcome, answers, stored, entry_first, entry_quiet>>

\* LookupRelease1 without "if ip: return ip": a hit is resolved again
LookupRelease1Requery(t) ==
  /\ pc[t] = "lookup_54"
  /\ UNCHANGED construction
  /\ dns_cache_lock' = 0
  /\ pc' = [pc EXCEPT ![t] = "lookup_58"]
  /\ UNCHANGED <<dns_cache, cache_rdtype, first_resolved, started, kind, handler,
                 hostname, rdtype, lk_ip, real_ip, lk, outcome, answers, stored, hit_rdtype,
                 entry_first, entry_quiet>>

\* LookupRelease1 that releases the lock only when it returns the hit
LookupRelease1KeepLock(t) ==
  /\ pc[t] = "lookup_54"
  /\ UNCHANGED construction
  /\ IF Truthy(lk_ip[t])
       THEN /\ dns_cache_lock' = 0
            /\ LookupReturn(t, lk_ip[t])
       ELSE /\ pc' = [pc EXCEPT ![t] = "lookup_58"]
            /\ UNCHANGED <<dns_cache_lock, real_ip, lk>>
  /\ UNCHANGED <<dns_cache, cache_rdtype, first_resolved, started, kind, handler,
                 hostname, rdtype, lk_ip, outcome, answers, stored, hit_rdtype,
                 entry_first, entry_quiet>>

\* self.dns_cache_lock.release(); if ip: return ip
LookupRelease1(t) ==
  /\ pc[t] = "lookup_54"
  /\ UNCHANGED construction
  /\ dns_cache_lock' = 0
  /\ IF Truthy(lk_ip[t])
       THEN LookupReturn(t, lk_ip[t])
       ELSE /\ pc' = [pc EXCEPT ![t] = "lookup_58"]
            /\ UNCHANGED <<real_ip, lk>>
  /\ UNCHANGED <<dns_cache, cache_rdtype, first_resolved, started, kind, handler,
                 hostname, rdtype, lk_ip, outcome, answers, stored, hit_rdtype,
                 entry_first, entry_quiet>>

\* LookupQuery whose except clause falls through to the store instead of returning
LookupQueryStoreFailure(t, o) ==
  /\ pc[t] = "lookup_58"
  /\ UNCHANGED construction
  /\ outcome' = [outcome EXCEPT ![t] = o.kind]
  /\ answers' = [answers EXCEPT ![t] = o.ip]
  /\ IF o.kind \in Uncaught
       THEN /\ error' = [error EXCEPT ![t] = o.kind]
            /\ lk' = [lk EXCEPT ![t] = "raised"]
            /\ pc' = [pc EXCEPT ![t] = "done"]
            /\ UNCHANGED <<lk_ip, real_ip>>
       ELSE /\ lk_ip' = [lk_ip EXCEPT ![t] = IF o.kind = "answer" THEN o.ip ELSE lk_ip[t]]
            /\ pc' = [pc EXCEPT ![t] = "lookup_67"]
            /\ UNCHANGED <<real_ip, lk, error>>
  /\ UNCHANGED <<shared, started, kind, data, domain, wire_domain, ip, wfile,
                 hostname, rdtype, stored, hit_rdtype, entry_first, entry_quiet>>

\* LookupQuery made under the lock, which an exception leaves held
LookupQueryLocked(t, o) ==
  /\ pc[t] = "lookup_58"
  /\ UNCHANGED construction
  /\ dns_cache_lock = 0
  /\ dns_cache_lock' = IF o.kind \in Caught \cup Uncaught THEN t ELSE 0
  /\ outcome' = [outcome EXCEPT ![t] = o.kind]
  /\ answers' = [answers EXCEPT ![t] = o.ip]
  /\ IF o.kind \in Caught
       THEN /\ LookupReturn(t, None)
            /\ UNCHANGED <<lk_ip, error>>
       ELSE IF o.kind \in Uncaught
         THEN /\ error' = [error EXCEPT ![t] = o.kind]
              /\ lk' = [lk EXCEPT ![t] = "raised"]
              /\ pc' = [pc EXCEPT ![t] = "done"]
              /\ UNCHANGED <<lk_ip, real_ip>>
         ELSE /\ lk_ip' = [lk_ip EXCEPT ![t] = IF o.kind = "answer" THEN o.ip ELSE lk_ip[t]]
              /\ pc' = [pc EXCEPT ![t] = "lookup_67"]
              /\ UNCHANGED <<real_ip, lk, error>>
  /\ UNCHANGED <<dns_cache, cache_rdtype, first_resolved, started, kind, data, domain,
                 wire_domain, ip, wfile, hostname, rdtype, stored, hit_rdtype,
                 entry_first, entry_quiet>>

\* LookupQuery whose except clause does not name dns.resolver.Timeout
LookupQueryPropagate(t, o) ==
  /\ pc[t] = "lookup_58"
  /\ UNCHANGED construction
  /\ outcome' = [outcome EXCEPT ![t] = o.kind]
  /\ answers' = [answers EXCEPT ![t] = o.ip]
  /\ IF o.kind \in Caught \ {"Timeout"}
       THEN /\ LookupReturn(t, None)
            /\ UNCHANGED <<lk_ip, error>>
       ELSE IF o.kind \in Uncaught \cup {"Timeout"}
         THEN /\ error' = [error EXCEPT ![t] = o.kind]
              /\ lk' = [lk EXCEPT ![t] = "raised"]
              /\ pc' = [pc EXCEPT ![t] = "done"]
              /\ UNCHANGED <<lk_ip, real_ip>>
         ELSE /\ lk_ip' = [lk_ip EXCEPT ![t] = IF o.kind = "answer" THEN o.ip ELSE lk_ip[t]]
              /\ pc' = [pc EXCEPT ![t] = "lookup_67"]
              /\ UNCHANGED <<real_ip, lk, error>>
  /\ UNCHANGED <<shared, started, kind, data, domain, wire_domain, ip, wfile,
                 hostname, rdtype, stored, hit_rdtype, entry_first, entry_quiet>>

\* answers = self.resolver.query(hostname, rdtype), with its except clause,
\* and "if answers: ip = str(answers[0])"
LookupQuery(t, o) ==
  /\ pc[t] = "lookup_58"
  /\ UNCHANGED construction
  /\ outcome' = [outcome EXCEPT ![t] = o.kind]
  /\ answers' = [answers EXCEPT ![t] = o.ip]
  /\ IF o.kind \in Caught
       THEN /\ LookupReturn(t, None)
            /\ UNCHANGED <<lk_ip, error>>
       ELSE IF o.kind \in Uncaught
         THEN /\ error' = [error EXCEPT ![t] = o.kind]
              /\ lk' = [lk EXCEPT ![t] = "raised"]
              /\ pc' = [pc EXCEPT ![t] = "done"]
              /\ UNCHANGED <<lk_ip, real_ip>>
         ELSE /\ lk_ip' = [lk_ip EXCEPT ![t] = IF o.kind = "answer" THEN o.ip ELSE lk_ip[t]]
              /\ pc' = [pc EXCEPT ![t] = "lookup_67"]
              /\ UNCHANGED <<real_ip, lk, error>>
  /\ UNCHANGED <<shared, started, kind, data, domain, wire_domain, ip, wfile,
                 hostname, rdtype, stored, hit_rdtype, entry_first, entry_quiet>>

\* self.dns_cache_lock.acquire()
LookupAcquire2(t) ==
  /\ pc[t] = "lookup_67"
  /\ UNCHANGED construction
  /\ dns_cache_lock = 0
  /\ dns_cache_lock' = t
  /\ pc' = [pc EXCEPT ![t] = "lookup_68"]
  /\ UNCHANGED <<dns_cache, cache_rdtype, first_resolved, started, kind, handler, lookup>>

\* LookupSet that stores the address the filter would answer with
LookupSetFiltered(t) ==
  /\ pc[t] = "lookup_68"
  /\ UNCHANGED construction
  /\ dns_cache' = [dns_cache EXCEPT ![hostname[t]] =
                     IF Truthy(lk_ip[t]) /\ ~IsPrivate(lk_ip[t])
                       THEN web_proxy_ip ELSE lk_ip[t]]
  /\ cache_rdtype' = [cache_rdtype EXCEPT ![hostname[t]] = rdtype[t]]
  /\ stored' = [stored EXCEPT ![t] = TRUE]
  /\ pc' = [pc EXCEPT ![t] = "lookup_69"]
  /\ UNCHANGED <<dns_cache_lock, first_resolved, started, kind, handler, hostname,
                 rdtype, lk_ip, real_ip, lk, outcome, answers, hit_rdtype, entry_first,
                 entry_quiet>>

\* self.dns_cache[hostname] = ip
LookupSet(t) ==
  /\ pc[t] = "lookup_68"
  /\ UNCHANGED construction
  /\ dns_cache' = [dns_cache EXCEPT ![hostname[t]] = lk_ip[t]]
  /\ cache_rdtype' = [cache_rdtype EXCEPT ![hostname[t]] = rdtype[t]]
  /\ stored' = [stored EXCEPT ![t] = TRUE]
  /\ pc' = [pc EXCEPT ![t] = "lookup_69"]
  /\ UNCHANGED <<dns_cache_lock, first_resolved, started, kind, handler, hostname,
                 rdtype, lk_ip, real_ip, lk, outcome, answers, hit_rdtype, entry_first,
                 entry_quiet>>

\* LookupRelease2 that returns without releasing the lock
LookupRelease2NoRelease(t) ==
  /\ pc[t] = "lookup_69"
  /\ UNCHANGED construction
  /\ LookupReturn(t, lk_ip[t])
  /\ first_resolved' =
       IF outcome[t] = "answer" /\ first_resolved[hostname[t]] = None
         THEN [first_resolved EXCEPT ![hostname[t]] = lk_ip[t]]
         ELSE first_resolved
  /\ UNCHANGED <<dns_cache, dns_cache_lock, cache_rdtype, started, kind, handler,
                 hostname, rdtype, lk_ip, outcome, answers, stored, hit_rdtype,
                 entry_first, entry_quiet>>

\* self.dns_cache_lock.release(); return ip
LookupRelease2(t) ==
  /\ pc[t] = "lookup_69"
  /\ UNCHANGED construction
  /\ dns_cache_lock' = 0
  /\ LookupReturn(t, lk_ip[t])
  /\ first_resolved' =
       IF outcome[t] = "answer" /\ first_resolved[hostname[t]] = None
         THEN [first_resolved EXCEPT ![hostname[t]] = lk_ip[t]]
         ELSE first_resolved
  /\ UNCHANGED <<dns_cache, cache_rdtype, started, kind, handler, hostname, rdtype,
                 lk_ip, outcome, answers, stored, hit_rdtype, entry_first, entry_quiet>>

---------------------------------------------------------------------------
\* DnsPrivatePassthroughFilter.__call__

\* InSkipList against the hosts as configured, without the appended "."
InSkipListNoDot(host) == host \in SkipHostsArg

\* host in self.skip_passthrough_hosts
InSkipList(host) == host \in skip_passthrough_hosts

\* ip = self.web_proxy_ip; if host not in self.skip_passthrough_hosts:
\*   real_ip = self.real_dns_lookup(host)
FilterCall(t) ==
  /\ pc[t] = "handle_141"
  /\ UNCHANGED construction
  /\ IF InSkipList(domain[t])
       THEN /\ ip' = [ip EXCEPT ![t] = web_proxy_ip]
            /\ pc' = [pc EXCEPT ![t] = "handle_142"]
            /\ UNCHANGED <<hostname, rdtype, lk, entry_first, entry_quiet>>
       ELSE /\ EnterLookup(t, domain[t], RdtypeA)
            /\ UNCHANGED ip
  /\ UNCHANGED <<shared, started, kind, data, domain, wire_domain, wfile, error,
                 lk_ip, real_ip, outcome, answers, stored, hit_rdtype>>

\* PassthroughIp without the is_private test
PassthroughIpUnfiltered(real) == IF Truthy(real) THEN real ELSE None

\* the filter's result for what the lookup returned
PassthroughIp(real) ==
  IF Truthy(real)
    THEN IF IsPrivate(real) THEN real ELSE web_proxy_ip
    ELSE None

\* FilterReturn that returns what the lookup returned
FilterReturnRaw(t) ==
  /\ pc[t] = "filter_104"
  /\ UNCHANGED construction
  /\ ip' = [ip EXCEPT ![t] = real_ip[t]]
  /\ pc' = [pc EXCEPT ![t] = "handle_142"]
  /\ UNCHANGED <<shared, started, kind, data, domain, wire_domain, wfile, error, lookup>>

\* if real_ip: ... else: ip = None; return ip
FilterReturn(t) ==
  /\ pc[t] = "filter_104"
  /\ UNCHANGED construction
  /\ ip' = [ip EXCEPT ![t] = PassthroughIp(real_ip[t])]
  /\ pc' = [pc EXCEPT ![t] = "handle_142"]
  /\ UNCHANGED <<shared, started, kind, data, domain, wire_domain, wfile, error, lookup>>

---------------------------------------------------------------------------
\* UdpDnsHandler.handle after the filter returned

\* FallbackIp without the substitution
FallbackIpNone(v) == v

\* if ip is None: ip = self.server.server_address[0]
FallbackIp(v) == IF v = None THEN server_address[1] ELSE v

\* self.wfile.write(self.get_dns_response(ip))
Respond(t) ==
  /\ pc[t] = "handle_142"
  /\ UNCHANGED construction
  /\ LET v == FallbackIp(ip[t]) IN
       IF domain[t] # <<>> /\ ~InetAtonOk(v)
         THEN /\ error' = [error EXCEPT ![t] = "socket.error"]
              /\ UNCHANGED wfile
         ELSE /\ wfile' = [wfile EXCEPT ![t] =
                   wfile[t] \o get_dns_response(data[t], domain[t], wire_domain[t], v)]
              /\ UNCHANGED error
  /\ pc' = [pc EXCEPT ![t] = "done"]
  /\ UNCHANGED <<shared, started, kind, data, domain, wire_domain, ip, lookup>>

\* the thread ends; its handler object is dropped
Finish(t) ==
  /\ pc[t] = "done"
  /\ UNCHANGED construction
  /\ pc' = [pc EXCEPT ![t] = "idle"]
  /\ kind' = [kind EXCEPT ![t] = "handle"]
  /\ data' = [data EXCEPT ![t] = <<>>]
  /\ domain' = [domain EXCEPT ![t] = <<>>]
  /\ wire_domain' = [wire_domain EXCEPT ![t] = <<>>]
  /\ ip' = [ip EXCEPT ![t] = None]
  /\ wfile' = [wfile EXCEPT ![t] = <<>>]
  /\ error' = [error EXCEPT ![t] = ""]
  /\ hostname' = [hostname EXCEPT ![t] = <<>>]
  /\ rdtype' = [rdtype EXCEPT ![t] = RdtypeA]
  /\ lk_ip' = [lk_ip EXCEPT ![t] = None]
  /\ real_ip' = [real_ip EXCEPT ![t] = None]
  /\ lk' = [lk EXCEPT ![t] = "none"]
  /\ outcome' = [outcome EXCEPT ![t] = ""]
  /\ answers' = [answers EXCEPT ![t] = None]
  /\ stored' = [stored EXCEPT ![t] = FALSE]
  /\ hit_rdtype' = [hit_rdtype EXCEPT ![t] = 0]
  /\ entry_first' = [entry_first EXCEPT ![t] = None]
  /\ entry_quiet' = [entry_quiet EXCEPT ![t] = None]
  /\ UNCHANGED <<shared, started>>

---------------------------------------------------------------------------

\* one step of thread t inside RealDnsLookup.__call__
LookupStep(t) ==
  \/ LookupAcquire1(t)
  \/ LookupGet(t)
  \/ LookupRelease1(t)
  \/ \E o \in UpstreamOutcomes(rdtype[t]) : LookupQuery(t, o)
  \/ LookupAcquire2(t)
  \/ LookupSet(t)
  \/ LookupRelease2(t)

\* one step of thread t
Step(t) ==
  \/ Decode(t)
  \/ FilterCall(t)
  \/ LookupStep(t)
  \/ FilterReturn(t)
  \/ Respond(t)
  \/ Finish(t)

\* The server under load: datagrams arrive while others are being handled.
Next ==
  \E t \in Tasks :
    \/ \E p \in ConcurrentPackets : Receive(t, p)
    \/ Step(t)

Spec == Init /\ [][Next]_vars

\* Every step of thread t but the upstream query: the steps that the thread
\* takes by itself once it is scheduled (an acquire, once the lock is free).
Advance(t) ==
  \/ Decode(t)
  \/ FilterCall(t)
  \/ LookupAcquire1(t)
  \/ LookupGet(t)
  \/ LookupRelease1(t)
  \/ LookupAcquire2(t)
  \/ LookupSet(t)
  \/ LookupRelease2(t)
  \/ FilterReturn(t)
  \/ Respond(t)

\* The datagrams of the fair specification: a query that is looked up and a
\* query for a skip-list host
FairPackets ==
  { Header(1, 1) \o Question(97, 1),
    Header(1, 1) \o Question(115, 1) }

\* One thread per datagram, each thread handling its datagram and ending.
FairNext ==
  \E t \in Tasks :
    \/ \E p \in FairPackets : Receive(t, p)
    \/ Advance(t)
    \/ \E o \in UpstreamOutcomes(rdtype[t]) : LookupQuery(t, o)

\* Every thread is scheduled again and again.  The upstream query is not
\* fair: it may never return.  Nor is the arrival of datagrams.
FairSpec == Init /\ [][FairNext]_vars /\ \A t \in Tasks : WF_vars(Advance(t))

\* One request at a time, over every datagram and every direct call.
AllIdle == \A u \in Tasks : pc[u] = "idle"

NextSeq ==
  \E t \in Tasks :
    \/ AllIdle /\ \E p \in Packets : Receive(t, p)
    \/ AllIdle /\ \E h \in CallHosts, r \in Rdtypes : Call(t, h, r)
    \/ Step(t)

SeqSpec == Init /\ [][NextSeq]_vars

\* One datagram, drawn from the generated ones, handled from start to end.
CodecInit ==
  /\ name_servers = ProxyNameServers
  /\ resolver = [got |-> TRUE, nameservers |-> ProxyNameServers]
  /\ ctor = "constructed"
  /\ dns_cache = [h \in CodecHostnames |-> NoEntry]
  /\ dns_cache_lock = 0
  /\ cache_rdtype = [h \in CodecHostnames |-> 0]
  /\ first_resolved = [h \in CodecHostnames |-> None]
  /\ InitTasks

CodecNext ==
  \/ started = 0 /\ \E p \in CodecPackets : Receive(1, p)
  \/ Step(1)

CodecSpec == CodecInit /\ [][CodecNext]_vars

---------------------------------------------------------------------------
\* RealDnsLookup.__init__

\* The nameserver lists the constructor is called with
NameServers == { "127.0.0.1", "127.0.0.2", "8.8.8.8" }
NameServerLists == UNION { [1..n -> NameServers] : n \in 0..MaxServers }

\* dns_cache_lock and dns_cache before the constructor has assigned them
NoLock == -1
NoCache == <<>>

\* InList that looks at the first element only
InListHead(x, xs) == Len(xs) > 0 /\ xs[1] = x

\* x in xs, for a list xs
InList(x, xs) == \E i \in 1..Len(xs) : xs[i] = x

\* RealDnsLookup(name_servers) is called; nothing is assigned yet
CtorInit ==
  /\ name_servers \in NameServerLists
  /\ resolver = NoResolver
  /\ ctor = "init_35"
  /\ dns_cache = NoCache
  /\ dns_cache_lock = NoLock
  /\ cache_rdtype = [h \in Hostnames |-> 0]
  /\ first_resolved = [h \in Hostnames |-> None]
  /\ InitTasks

\* if '127.0.0.1' in name_servers: raise DnsProxyException(...)
Construct35 ==
  /\ ctor = "init_35"
  /\ ctor' = IF InList("127.0.0.1", name_servers) THEN "raised" ELSE "init_38"
  /\ UNCHANGED <<shared, name_servers, resolver, started, pc, kind, handler, lookup>>

\* self.resolver = dns.resolver.get_default_resolver()
Construct38 ==
  /\ ctor = "init_38"
  /\ resolver' = DefaultResolver
  /\ ctor' = "init_39"
  /\ UNCHANGED <<shared, name_servers, started, pc, kind, handler, lookup>>

\* self.resolver.nameservers = name_servers
Construct39 ==
  /\ ctor = "init_39"
  /\ resolver' = [resolver EXCEPT !.nameservers = name_servers]
  /\ ctor' = "init_40"
  /\ UNCHANGED <<shared, name_servers, started, pc, kind, handler, lookup>>

\* self.dns_cache_lock = threading.Lock()
Construct40 ==
  /\ ctor = "init_40"
  /\ dns_cache_lock' = 0
  /\ ctor' = "init_41"
  /\ UNCHANGED <<dns_cache, cache_rdtype, first_resolved, name_servers, resolver,
                 started, pc, kind, handler, lookup>>

\* self.dns_cache = {}
Construct41 ==
  /\ ctor = "init_41"
  /\ dns_cache' = [h \in Hostnames |-> NoEntry]
  /\ ctor' = "constructed"
  /\ UNCHANGED <<dns_cache_lock, cache_rdtype, first_resolved, name_servers,
                 resolver, started, pc, kind, handler, lookup>>

\* The constructor, then the constructed object called one call at a time.
CtorNext ==
  \/ Construct35
  \/ Construct38
  \/ Construct39
  \/ Construct40
  \/ Construct41
  \/ /\ ctor = "constructed"
     /\ \E t \in Tasks :
          \/ AllIdle /\ \E h \in CallHosts, r \in Rdtypes : Call(t, h, r)
          \/ LookupStep(t)
          \/ Finish(t)

CtorSpec == CtorInit /\ [][CtorNext]_vars

---------------------------------------------------------------------------
\* Properties

Handling(t) == kind[t] = "handle" /\ pc[t] # "idle"
AfterFilter(t) == kind[t] = "handle" /\ pc[t] \in {"handle_142", "done"}

\* C1: for a hostname not in the skip-list, the filter returns None when the
\* lookup returned None, the real address when it is private, and
\* web_proxy_ip when it is an address that is not private.
C1_PassthroughResult ==
  \A t \in Tasks :
    (AfterFilter(t) /\ lk[t] = "returned" /\ domain[t] \notin skip_passthrough_hosts) =>
      /\ ~Truthy(real_ip[t]) => ip[t] = None
      /\ (Truthy(real_ip[t]) /\ IsPrivate(real_ip[t])) => ip[t] = real_ip[t]
      /\ (Truthy(real_ip[t]) /\ ~IsPrivate(real_ip[t])) => ip[t] = web_proxy_ip

C1_Witness ==
  \E t \in Tasks :
    /\ AfterFilter(t) /\ lk[t] = "returned"
    /\ real_ip[t] = Ip4(192, 168, 1, 5)
    /\ ip[t] = real_ip[t]
    /\ ip[t] # web_proxy_ip

\* C2: for a hostname in the skip-list the filter returns web_proxy_ip, and
\* the thread never enters the lookup: it makes no cache access and no
\* upstream query, whatever the cache holds and whatever other threads do.
C2_SkipListNoLookup ==
  \A t \in Tasks :
    (Handling(t) /\ domain[t] \in skip_passthrough_hosts) =>
      /\ lk[t] = "none" /\ outcome[t] = "" /\ ~stored[t]
      /\ pc[t] \in {"handle_141", "handle_142", "done"}
      /\ dns_cache_lock # t
      /\ AfterFilter(t) => ip[t] = web_proxy_ip

C2_Witness ==
  \E t, u \in Tasks :
    /\ AfterFilter(t) /\ domain[t] \in skip_passthrough_hosts
    /\ ip[t] = web_proxy_ip /\ lk[t] = "none"
    /\ u # t /\ pc[u] = "lookup_58"
    /\ \E h \in DOMAIN dns_cache : Truthy(dns_cache[h])

\* C3 as claimed: once a lookup of a hostname has completed with a successful
\* upstream resolution, every lookup of the hostname that starts later returns
\* that address and makes no upstream query.
C3_Original ==
  \A t \in Tasks :
    (lk[t] = "returned" /\ Truthy(entry_first[t])) =>
      real_ip[t] = entry_first[t] /\ outcome[t] = ""

\* C3 (amended): once a hostname is cached with an address and no lookup of
\* it that missed the cache is still in flight, every lookup that starts
\* later finds that address still cached, makes no upstream query and returns
\* that address.
C3_HitAfterQuiet ==
  \A t \in Tasks :
    Truthy(entry_quiet[t]) =>
      /\ dns_cache[hostname[t]] = entry_quiet[t]
      /\ outcome[t] = "" /\ ~stored[t]
      /\ pc[t] \in {"lookup_52", "lookup_53", "lookup_54", "filter_104",
                    "handle_142", "done"}
      /\ lk[t] = "returned" => real_ip[t] = entry_quiet[t]

C3_Witness ==
  \E t \in Tasks :
    /\ Truthy(entry_quiet[t]) /\ lk[t] = "returned"
    /\ real_ip[t] = entry_quiet[t]
    /\ first_resolved[hostname[t]] = entry_quiet[t]

\* C4 as claimed: an entry that has been written for a key is never replaced
\* by a different value.
C4_Original ==
  [][\A h \in DOMAIN dns_cache :
       dns_cache[h] # NoEntry => dns_cache'[h] = dns_cache[h]]_vars

\* C4 (amended): a written entry is never removed; it changes only by the
\* store of a lookup of that hostname that missed the cache (last writer
\* wins); and once the hostname is cached with an address and no lookup that
\* missed is in flight, the entry never changes again.
C4_OverwriteOnlyByPendingMiss ==
  [][\A h \in DOMAIN dns_cache :
       /\ dns_cache[h] # NoEntry => dns_cache'[h] # NoEntry
       /\ dns_cache'[h] # dns_cache[h] =>
            \E u \in Tasks : /\ PendingMiss(u, h) /\ pc[u] = "lookup_68"
                             /\ dns_cache_lock = u
                             /\ dns_cache'[h] = lk_ip[u]
       /\ Quiet(h) => (Quiet(h)' /\ dns_cache'[h] = dns_cache[h])]_vars

C4_Witness ==
  \E t, u \in Tasks :
    /\ t # u /\ hostname[t] = hostname[u]
    /\ stored[t] /\ stored[u]
    /\ lk[t] = "returned" /\ lk[u] = "returned"
    /\ Truthy(real_ip[t]) /\ Truthy(real_ip[u]) /\ real_ip[t] # real_ip[u]
    /\ dns_cache[hostname[t]] = real_ip[u]

C6_LockOnlyAroundMap ==
  /\ dns_cache_lock \in {0} \cup Tasks
  /\ \A t \in Tasks :
       /\ dns_cache_lock = t <=>
            pc[t] \in {"lookup_53", "lookup_54", "lookup_68", "lookup_69"}
       /\ pc[t] = "lookup_58" => dns_cache_lock # t
       /\ lk[t] \in {"returned", "raised"} => dns_cache_lock # t

C6_Witness ==
  \E t, u \in Tasks :
    /\ t # u /\ pc[t] = "lookup_58" /\ outcome[t] = ""
    /\ dns_cache_lock = u /\ pc[u] = "lookup_68"

\* C7: a lookup that returns a cached value returns one that was stored by a
\* lookup with the same record type.
C7_KeyedByRecordType ==
  \A t \in Tasks :
    (lk[t] = "returned" /\ outcome[t] = "" /\ Truthy(real_ip[t])) =>
      hit_rdtype[t] = rdtype[t]

\* C8: a datagram shorter than the 12-byte header ends its handler with an
\* error, before the filter is called and with nothing written.
C8_ShortPacketRejected ==
  \A t \in Tasks :
    (kind[t] = "handle" /\ pc[t] \notin {"idle", "handle_130"} /\ Len(data[t]) < 12) =>
      /\ pc[t] = "done" /\ error[t] # ""
      /\ lk[t] = "none" /\ wfile[t] = <<>>

\* C9: the handler of a datagram with a non-zero operation code writes no
\* response bytes, whatever the filter returns.
C9_NonZeroOpcodeNoResponse ==
  \A t \in Tasks :
    (Handling(t) /\ Len(data[t]) >= 3
       /\ OperationCode(data[t]) # STANDARD_QUERY_OPERATION_CODE) =>
      wfile[t] = <<>> /\ domain[t] = <<>>

C9_Witness ==
  \E t \in Tasks :
    /\ kind[t] = "handle" /\ pc[t] = "done" /\ error[t] = ""
    /\ Len(data[t]) >= 12 /\ OperationCode(data[t]) = 2
    /\ ip[t] = Ip4(192, 168, 1, 5)
    /\ wfile[t] = <<>>

\* the answer record that ends a response: pointer 0xC00C, type A, class IN,
\* TTL 60, length 4, the address
AnswerRecord(addr) ==
  <<192, 12, 0, 1, 0, 1, 0, 0, 0, 60, 0, 4>> \o addr.parts
EndsWith(s, tail) ==
  Len(s) >= Len(tail) /\ Slice(s, Len(s) - Len(tail), Len(s)) = tail

\* C10: when the filter returns None for a standard query with a non-empty
\* domain, the handler answers with the server's own address: a lookup that
\* failed with NoAnswer, NXDOMAIN or Timeout still gets a response that ends
\* with an A record for server_address[0].
C10_FallbackAnswer ==
  \A t \in Tasks :
    (kind[t] = "handle" /\ pc[t] = "done" /\ domain[t] # <<>>) =>
      /\ (lk[t] = "returned" /\ outcome[t] \in Caught) => ip[t] = None
      /\ (lk[t] = "returned" /\ ip[t] = None) =>
           /\ error[t] = ""
           /\ EndsWith(wfile[t], AnswerRecord(server_address[1]))
           /\ Len(wfile[t]) = 12 + Len(wire_domain[t]) + 16

C10_Witness ==
  \E t \in Tasks :
    /\ kind[t] = "handle" /\ pc[t] = "done" /\ domain[t] = <<97, 46>>
    /\ outcome[t] = "NXDOMAIN" /\ ip[t] = None
    /\ EndsWith(wfile[t], <<0, 4, 0, 0, 0, 0>>)

\* C11: a lookup whose upstream query raised NoAnswer, NXDOMAIN or Timeout
\* returns None and raises nothing, and nothing the caller can observe
\* depends on which of the three it was: the lookup's locals, its return
\* value and its effect on the cache and the lock are the same, and so is the
\* handler's response.
C11_FailuresNormalized ==
  \A t \in Tasks :
    outcome[t] \in Caught =>
      /\ lk[t] = "returned" /\ real_ip[t] = None /\ error[t] = ""
      /\ lk_ip[t] = None /\ answers[t] = None
      /\ ~stored[t] /\ dns_cache_lock # t
      /\ pc[t] \in {"filter_104", "handle_142", "done"}
      /\ AfterFilter(t) => ip[t] = None
      /\ (kind[t] = "handle" /\ pc[t] = "done") =>
           wfile[t] = get_dns_response(data[t], domain[t], wire_domain[t],
                                       server_address[1])

C11_Witness ==
  \E t, u \in Tasks :
    /\ outcome[t] = "NXDOMAIN" /\ outcome[u] = "Timeout"
    /\ pc[t] = "done" /\ pc[u] = "done"
    /\ real_ip[t] = None /\ real_ip[u] = None
    /\ wfile[t] # <<>> /\ wfile[t] = wfile[u]

\* a handler that has written the response to a standard query
Answered(t) ==
  /\ kind[t] = "handle" /\ pc[t] = "done" /\ error[t] = ""
  /\ Len(data[t]) >= 3
  /\ OperationCode(data[t]) = STANDARD_QUERY_OPERATION_CODE
  /\ domain[t] # <<>>

\* C12: the response to a standard query with a non-empty domain begins with
\* the request's bytes 0-1 (the transaction id) and carries the request's
\* bytes from offset 12 on, verbatim, from its own offset 12 on, followed by
\* the 16 bytes of the answer record.
C12_RoundTrip ==
  \A t \in Tasks :
    Answered(t) =>
      /\ Slice(wfile[t], 0, 2) = Slice(data[t], 0, 2)
      /\ Slice(wfile[t], 12, Len(data[t])) = Slice(data[t], 12, Len(data[t]))
      /\ Len(wfile[t]) = Len(data[t]) + 16

C12_Witness ==
  \E t \in Tasks :
    /\ Answered(t)
    /\ Slice(data[t], 0, 2) = <<171, 205>>
    /\ Slice(wfile[t], 0, 2) = <<171, 205>>
    /\ Slice(wfile[t], 12, 17) = <<2, 97, 97, 0, 1>>

\* C13: every response has the flags 0x8180 in bytes 2-3, the request's
\* bytes 4-5 as question count and again as answer count, zero authority and
\* additional counts, and ends with one answer record: the pointer 0xC00C,
\* type A, class IN, TTL 60, length 4 and the four bytes of the address the
\* handler chose, which is an IPv4 address; so it is for an AAAA query too.
C13_ResponseHeader ==
  \A t \in Tasks :
    (kind[t] = "handle" /\ wfile[t] # <<>>) =>
      /\ Answered(t)
      /\ Slice(wfile[t], 2, 4) = <<129, 128>>
      /\ Slice(wfile[t], 4, 6) = Slice(data[t], 4, 6)
      /\ Slice(wfile[t], 6, 8) = Slice(data[t], 4, 6)
      /\ Slice(wfile[t], 8, 12) = <<0, 0, 0, 0>>
      /\ FallbackIp(ip[t]).ver = 4
      /\ EndsWith(wfile[t], AnswerRecord(FallbackIp(ip[t])))

C13_Witness ==
  \E t \in Tasks :
    /\ Answered(t)
    /\ data[t] = Header(1, 1) \o Question(97, RdtypeAAAA)
    /\ Slice(wfile[t], 2, 8) = <<129, 128, 0, 1, 0, 1>>
    /\ EndsWith(wfile[t], AnswerRecord(Ip4(192, 168, 1, 5)))

\* The wire form of a list of labels (each label behind its length, a zero
\* byte at the end) and the domain it stands for (each label followed by ".")
RECURSIVE Encode(_)
Encode(ls) ==
  IF ls = <<>> THEN <<0>>
  ELSE <<Len(Head(ls))>> \o Head(ls) \o Encode(Tail(ls))

RECURSIVE Dotted(_)
Dotted(ls) ==
  IF ls = <<>> THEN <<>>
  ELSE Head(ls) \o <<46>> \o Dotted(Tail(ls))

IsPrefix(a, b) == Len(a) <= Len(b) /\ Slice(b, 0, Len(a)) = a

\* Every list of labels whose wire form fits in MaxWire bytes
LabelsUpTo(n) == UNION { [1..m -> WireBytes] : m \in 1..n }
LabelLists ==
  UNION { [1..k -> LabelsUpTo(MaxWire - 2 * k)] : k \in 0..(MaxWire \div 2) }

\* the handler has just decoded (or failed to decode) the question section
Decoded(t) ==
  /\ kind[t] = "handle"
  /\ pc[t] = "handle_141" \/ (pc[t] = "done" /\ lk[t] = "none")
  /\ Len(data[t]) >= 12
  /\ Len(data[t]) <= 12 + MaxWire
  /\ OperationCode(data[t]) = STANDARD_QUERY_OPERATION_CODE

\* C14: when the question section begins with the wire form of a list of
\* labels, the decoded domain is these labels, each followed by "."; when it
\* begins with no such wire form (no zero length byte where a length is read
\* before the datagram ends), the handler ends with an IndexError and
\* without a domain.  The loop ends either way.
C14_DomainDecoding ==
  \A t \in Tasks :
    Decoded(t) =>
      LET w == Slice(data[t], 12, Len(data[t]))
          wf == { ls \in LabelLists : IsPrefix(Encode(ls), w) }
      IN IF wf # {}
           THEN /\ error[t] # "IndexError"
                /\ \A ls \in wf : domain[t] = Dotted(ls)
           ELSE /\ pc[t] = "done" /\ error[t] = "IndexError"
                /\ domain[t] = <<>> /\ wfile[t] = <<>>

C14_Witness ==
  \E t \in Tasks :
    /\ Decoded(t) /\ pc[t] = "handle_141"
    /\ Slice(data[t], 12, Len(data[t])) = <<1, 97, 1, 2, 0>>
    /\ domain[t] = <<97, 46, 2, 46>>

C14_WitnessUnterminated ==
  \E t \in Tasks :
    /\ Decoded(t) /\ error[t] = "IndexError"
    /\ Slice(data[t], 12, Len(data[t])) = <<1, 97, 2, 97>>

\* C15: constructed with a nameserver list that contains "127.0.0.1", the
\* constructor raises at its first statement: no resolver is fetched or
\* configured, no lock and no cache are created, and no lookup is ever made.
\* With any other list it does not raise, and ends with the resolver's
\* nameservers set to the list, the lock free and the cache empty.
C15_ConstructorCheck ==
  /\ (\E i \in 1..Len(name_servers) : name_servers[i] = "127.0.0.1") =>
       /\ ctor \in {"init_35", "raised"}
       /\ resolver = NoResolver
       /\ dns_cache_lock = NoLock /\ dns_cache = NoCache
  /\ (\A i \in 1..Len(name_servers) : name_servers[i] # "127.0.0.1") =>
       /\ ctor # "raised"
       /\ (ctor = "constructed" /\ started = 0) =>
            /\ resolver = [got |-> TRUE, nameservers |-> name_servers]
            /\ dns_cache_lock = 0
            /\ dns_cache = [h \in Hostnames |-> NoEntry]
  /\ ctor # "constructed" =>
       /\ started = 0
       /\ \A t \in Tasks : pc[t] = "idle" /\ lk[t] = "none" /\ outcome[t] = ""

C15_Witness ==
  /\ name_servers = <<"8.8.8.8", "127.0.0.1">>
  /\ ctor = "raised"
  /\ resolver = NoResolver /\ dns_cache = NoCache /\ dns_cache_lock = NoLock

\* C16: with every thread scheduled fairly, a handler that is not waiting
\* for its own upstream query reaches its end (its response written, or its
\* own exception) or its own upstream query, whatever the other threads do,
\* also when their upstream queries never return: no handler waits forever
\* for the cache lock.
C16_NonBlocking ==
  \A t \in Tasks :
    (Handling(t) /\ pc[t] # "lookup_58") ~> (pc[t] = "done" \/ pc[t] = "lookup_58")

C16_Witness ==
  \E t, u \in Tasks :
    /\ t # u
    /\ pc[u] = "lookup_58" /\ outcome[u] = ""
    /\ hostname[t] = hostname[u]
    /\ kind[t] = "handle" /\ pc[t] = "done" /\ stored[t] /\ wfile[t] # <<>>

\* C17: whatever the interleaving of lookups, also of several that missed
\* the cache for the same hostname and each made its own upstream query,
\* every write of the entry of a hostname is made by a lookup of that
\* hostname whose own upstream query returned, and writes what that query
\* returned (its first address; nothing for an empty answer).  So the cached
\* value is always one that an upstream query for the hostname returned.
C17_CachedFromUpstream ==
  [][\A h \in DOMAIN dns_cache :
       dns_cache'[h] # dns_cache[h] =>
         \E u \in Tasks :
           /\ hostname[u] = h /\ pc[u] = "lookup_68"
           /\ outcome[u] \in {"answer", "Empty"}
           /\ outcome[u] = "answer" => answers[u] \in UpstreamIps(rdtype[u])
           /\ dns_cache'[h] = answers[u]]_vars

C17_Witness ==
  \E t, u \in Tasks :
    /\ t # u /\ hostname[t] = hostname[u]
    /\ pc[t] = "lookup_67" /\ pc[u] = "lookup_67"
    /\ outcome[t] = "answer" /\ outcome[u] = "answer"
    /\ answers[t] # answers[u]
    /\ dns_cache[hostname[t]] = NoEntry

\* the request of thread t has failed: its handler or its lookup ended with
\* an exception, or its upstream query failed
Failed(t) == error[t] # "" \/ outcome[t] \in Caught

\* C18: a request that fails (a datagram that cannot be decoded, an upstream
\* query that raises NoAnswer, NXDOMAIN or Timeout, an exception that the
\* lookup does not catch, an address that cannot be packed) has written
\* nothing to the cache and does not hold the lock: the cache and the lock,
\* which are all that requests share, are as if it had not been made.
C18_ErrorContained ==
  \A t \in Tasks :
    Failed(t) =>
      /\ ~stored[t]
      /\ dns_cache_lock # t
      /\ pc[t] \in {"filter_104", "handle_142", "done"}

C18_Witness ==
  \E t, u \in Tasks :
    /\ t # u
    /\ pc[t] = "done" /\ error[t] = "NoNameservers" /\ lk[t] = "raised"
    /\ hostname[u] = hostname[t] /\ pc[u] = "lookup_53" /\ dns_cache_lock = u
    /\ dns_cache[hostname[t]] = NoEntry

\* the four address bytes that end a response
AnsweredAddress(t) == Slice(wfile[t], Len(wfile[t]) - 4, Len(wfile[t]))

\* C19: the address in a response is web_proxy_ip, or the server's own
\* address, or the private address that the lookup of the queried hostname
\* returned to this handler (from its own upstream query or from the cache);
\* an address that the lookup returned and that is not private is never the
\* one answered.
C19_RedirectSafety ==
  \A t \in Tasks :
    (kind[t] = "handle" /\ wfile[t] # <<>>) =>
      /\ \/ AnsweredAddress(t) = web_proxy_ip.parts
         \/ AnsweredAddress(t) = server_address[1].parts
         \/ /\ lk[t] = "returned" /\ hostname[t] = domain[t]
            /\ Truthy(real_ip[t]) /\ IsPrivate(real_ip[t])
            /\ outcome[t] = "answer" => real_ip[t] = answers[t]
            /\ AnsweredAddress(t) = real_ip[t].parts
      /\ (lk[t] = "returned" /\ Truthy(real_ip[t]) /\ ~IsPrivate(real_ip[t])) =>
           /\ AnsweredAddress(t) = web_proxy_ip.parts
           /\ AnsweredAddress(t) # real_ip[t].parts

C19_Witness ==
  \E t, u \in Tasks :
    /\ t # u /\ domain[t] = domain[u]
    /\ kind[t] = "handle" /\ pc[t] = "done"
    /\ kind[u] = "handle" /\ pc[u] = "done"
    /\ outcome[t] = "answer" /\ real_ip[t] = Ip4(8, 8, 8, 8)
    /\ AnsweredAddress(t) = <<127, 0, 0, 1>>
    /\ outcome[u] = "" /\ real_ip[u] = Ip4(192, 168, 1, 5)
    /\ AnsweredAddress(u) = <<192, 168, 1, 5>>
    /\ dns_cache[domain[t]] = Ip4(8, 8, 8, 8)

\* C20: the handler of a datagram with a non-zero operation code never
\* enters the lookup: it makes no upstream query and writes no cache entry.
C20_NonZeroOpcodeNoLookup ==
  \A t \in Tasks :
    (Handling(t) /\ Len(data[t]) >= 3
       /\ OperationCode(data[t]) # STANDARD_QUERY_OPERATION_CODE) =>
      lk[t] = "none" /\ outcome[t] = "" /\ ~stored[t]

====
